---- MODULE Spec2Model ----
(***************************************************************************)
(* Model of praw/models/reddit/mixins/editable.py: EditableMixin.edit and  *)
(* the inline-media reconciler EditableMixin._replace_richtext_links.      *)
(*                                                                         *)
(* Representation of Python values:                                        *)
(*   - a str that the code takes apart (a URL, a display text, a media     *)
(*     id, a body) is the sequence of its characters;                      *)
(*   - a dict is a record whose domain is the set of keys it has, so       *)
(*     d.get("c") is None exactly when "c" \notin DOMAIN d;                *)
(*   - the value of a block's "c" key is either a str or a list; the two   *)
(*     are told apart by a tag: [str |-> chars] or [list |-> items];       *)
(*   - a kind tag (the value of an "e" key) is only ever compared with     *)
(*     literals, and is a TLA+ string.                                     *)
(***************************************************************************)
EXTENDS Integers, Sequences, FiniteSets, TLC

Range(s) == {s[k] : k \in DOMAIN s}

(***************************************************************************)
(* Python string operations, on sequences of characters.                   *)
(***************************************************************************)

\* str.find(sep) + 1: the first position at which sep occurs in s, 0 if none.
Find(s, sep) ==
    LET hits == {k \in 1..(Len(s) - Len(sep) + 1) : SubSeq(s, k, k + Len(sep) - 1) = sep}
    IN  IF hits = {} THEN 0 ELSE CHOOSE k \in hits : \A h \in hits : k <= h

\* str.split(sep): the pieces of s between the occurrences of sep, left to right.
RECURSIVE Split(_, _)
Split(s, sep) ==
    LET k == Find(s, sep)
    IN  IF k = 0 THEN <<s>>
        ELSE <<SubSeq(s, 1, k - 1)>> \o Split(SubSeq(s, k + Len(sep), Len(s)), sep)

\* re.split(r"[./]", s): the pieces of s between the characters of seps.
RECURSIVE ReSplit(_, _)
ReSplit(s, seps) ==
    LET hits == {k \in 1..Len(s) : s[k] \in seps}
    IN  IF hits = {} THEN <<s>>
        ELSE LET k == CHOOSE h \in hits : \A g \in hits : h <= g
             IN  <<SubSeq(s, 1, k - 1)>> \o ReSplit(SubSeq(s, k + 1, Len(s)), seps)

\* Whether s holds the string pre at position k.
StartsAt(s, k, pre) ==
    /\ k >= 1
    /\ k + Len(pre) - 1 <= Len(s)
    /\ SubSeq(s, k, k + Len(pre) - 1) = pre

HTTPS == <<"h", "t", "t", "p", "s", ":", "/", "/">>
HTTP == <<"h", "t", "t", "p", ":", "/", "/">>

(***************************************************************************)
(* Module constants of editable.py.                                        *)
(***************************************************************************)

\* MEDIA_TYPE_MAPPING with the kinds of videos and animated images exchanged.
MEDIA_TYPE_MAPPING_Swapped ==
    [k \in {"Image", "RedditVideo", "AnimatedImage"} |->
        CASE k = "Image" -> "img"
          [] k = "RedditVideo" -> "gif"
          [] k = "AnimatedImage" -> "video"]

MEDIA_TYPE_MAPPING ==
    [k \in {"Image", "RedditVideo", "AnimatedImage"} |->
        CASE k = "Image" -> "img"
          [] k = "RedditVideo" -> "video"
          [] k = "AnimatedImage" -> "gif"]

\* The kinds the assertion of line 33 accepts for a block whose "c" is a str.
InlineKinds == {"gif", "img", "video"}

(***************************************************************************)
(* _replace_richtext_links, piece by piece.                                *)
(***************************************************************************)

\* hasattr(self, "media_metadata")
HasMediaMetadata(self) == "media_metadata" \in DOMAIN self

\* Lines 27-28 raise KeyError when some descriptor's kind is not a key of
\* MEDIA_TYPE_MAPPING.
UnknownKind(media_metadata) ==
    \E media_id \in DOMAIN media_metadata :
        media_metadata[media_id].e \notin DOMAIN MEDIA_TYPE_MAPPING

\* Lines 26-28: parsed_media_types, when no KeyError is raised.
ParsedMediaTypes(media_metadata) ==
    [media_id \in DOMAIN media_metadata |-> MEDIA_TYPE_MAPPING[media_metadata[media_id].e]]

\* isinstance(element.get("c"), str)
IsStrContent(element) == "c" \in DOMAIN element /\ "str" \in DOMAIN element.c

\* The assertion of line 33 left out: every block whose content is a str is
\* skipped.
LeafAssertionSkipped(element) == TRUE

\* Line 33: the assertion on a block whose content is a str.
LeafAssertion(element) == element.e \in InlineKinds

\* Line 39: item.get("e") == "link"
IsLink(item) == "e" \in DOMAIN item /\ item.e = "link"

\* Line 42, first split: item["u"].split("https://")[1] raises IndexError when
\* the URL holds no "https://".
HasHttps(u) == Len(Split(u, HTTPS)) >= 2

\* Line 42: url = item["u"].split("https://")[1].split("?")[0]
StripUrl(u) == Split(Split(u, HTTPS)[2], <<"?">>)[1]

\* Line 44: the tokens re.split(r"[./]", url) yields, as a set.
UrlTokens(u) == Range(ReSplit(StripUrl(u), {".", "/"}))

\* Lines 40-44 without the intersection: every known id counts as matched.
MatchedIdsAnyKnown(item, parsed_media_types) == DOMAIN parsed_media_types

\* Lines 40-44: matched_id = ids.intersection(re.split(r"[./]", url))
MatchedIds(item, parsed_media_types) == DOMAIN parsed_media_types \cap UrlTokens(item.u)

\* Lines 47-54 with the test of line 51 left out: the display text always
\* becomes the caption.
CorrectElementAlwaysCaption(item, matched_id, parsed_media_types) ==
    [e |-> parsed_media_types[matched_id], id |-> matched_id, c |-> [str |-> item.t]]

\* Lines 47-54: the element that replaces the block.
CorrectElement(item, matched_id, parsed_media_types) ==
    IF item.t # item.u
    THEN [e |-> parsed_media_types[matched_id], id |-> matched_id, c |-> [str |-> item.t]]
    ELSE [e |-> parsed_media_types[matched_id], id |-> matched_id]

\* Line 55 as an insertion before index instead of an assignment at index.
AssignAtInserted(document, index, correct_element) ==
    SubSeq(document, 1, index - 1) \o <<correct_element>>
        \o SubSeq(document, index, Len(document))

\* Line 55: richtext_json["document"][index] = correct_element
AssignAt(document, index, correct_element) == [document EXCEPT ![index] = correct_element]

Ok(document) == [status |-> "ok", document |-> document, block |-> 0, item |-> 0]
Raised(exc, document, block, item) ==
    [status |-> exc, document |-> document, block |-> block, item |-> item]

\* Lines 38-55: the loop over the items of the block at index, from item j on.
\* document is the document as mutated so far.  matched_id.pop() takes an
\* arbitrary member of the set, so every member is a possible outcome.
RECURSIVE ItemLoop(_, _, _, _, _)
ItemLoop(items, j, index, document, parsed_media_types) ==
    IF j > Len(items) THEN {Ok(document)}
    ELSE LET item == items[j]
         IN  IF ~IsLink(item)
             THEN ItemLoop(items, j + 1, index, document, parsed_media_types)
             ELSE IF ~HasHttps(item.u)
             THEN {Raised("IndexError", document, index, j)}
             ELSE LET matched == MatchedIds(item, parsed_media_types)
                  IN  IF matched = {}
                      THEN ItemLoop(items, j + 1, index, document, parsed_media_types)
                      ELSE UNION {ItemLoop(items, j + 1, index,
                                           AssignAt(document, index,
                                                    CorrectElement(item, matched_id,
                                                                   parsed_media_types)),
                                           parsed_media_types) : matched_id \in matched}

\* Lines 30-55: the loop over the snapshot richtext_json["document"][:], from
\* block index on.
RECURSIVE BlockLoop(_, _, _, _)
BlockLoop(snapshot, index, document, parsed_media_types) ==
    IF index > Len(snapshot) THEN {Ok(document)}
    ELSE LET element == snapshot[index]
         IN  IF IsStrContent(element)
             THEN IF LeafAssertion(element)
                  THEN BlockLoop(snapshot, index + 1, document, parsed_media_types)
                  ELSE {Raised("AssertionError", document, index, 0)}
             ELSE IF "c" \notin DOMAIN element
             THEN {Raised("TypeError", document, index, 0)}
             ELSE UNION {IF r.status = "ok"
                         THEN BlockLoop(snapshot, index + 1, r.document, parsed_media_types)
                         ELSE {r} :
                         r \in ItemLoop(element.c.list, 1, index, document,
                                        parsed_media_types)}

\* Lines 24-55: every outcome of self._replace_richtext_links(richtext_json): the
\* exception raised ("ok" for a normal return), the document as the call leaves
\* it, and the block and item at which the exception was raised (0 when it was
\* raised outside the loops, or not at all).
ReplaceRichtextLinks(self, document) ==
    IF ~HasMediaMetadata(self) THEN {Ok(document)}
    ELSE IF UnknownKind(self.media_metadata) THEN {Raised("KeyError", document, 0, 0)}
    ELSE BlockLoop(document, 1, document, ParsedMediaTypes(self.media_metadata))

(***************************************************************************)
(* The inputs the model draws from.                                        *)
(***************************************************************************)

\* The total number of blocks and items of a document.
MaxNodes == 4

M1 == <<"m", "1">>
M2 == <<"m", "2">>
MediaIds == {M1, M2}

\* The three kinds MEDIA_TYPE_MAPPING knows, and one it does not.
MediaKinds == {"Image", "RedditVideo", "AnimatedImage", "Sticker"}

MediaMetadatas ==
    UNION {[ids -> {[e |-> k] : k \in MediaKinds}] : ids \in SUBSET MediaIds}

\* An object without a media_metadata attribute, and objects with one.
NoAttributes == [a \in {} |-> a]
Selfs == {NoAttributes} \cup {[media_metadata |-> m] : m \in MediaMetadatas}

ReddIt == <<"i", ".", "r", "e", "d", "d", ".", "i", "t", "/">>
Amp == <<"?", "a", "m", "p", "=", "1">>
ExCom == <<"e", "x", ".", "c", "o", "m", "/", "x">>

\* https://i.redd.it/{id}?amp=1
MediaUrl(id) == HTTPS \o ReddIt \o id \o Amp
\* https://i.redd.it/m1/m2.png: two media ids among its tokens.
BothUrl == HTTPS \o ReddIt \o M1 \o <<"/">> \o M2 \o <<".", "p", "n", "g">>
\* https://ex.com/x and http://ex.com/x: links to something else.
ExternalUrl == HTTPS \o ExCom
PlainHttpUrl == HTTP \o ExCom

Caption == <<"c", "a", "p">>

Link(u, t) == [e |-> "link", u |-> u, t |-> t]
Items ==
    { [e |-> "text", t |-> Caption],
      Link(MediaUrl(M1), MediaUrl(M1)),
      Link(MediaUrl(M2), Caption),
      Link(BothUrl, BothUrl),
      Link(ExternalUrl, Caption),
      Link(PlainHttpUrl, Caption) }

\* Blocks whose content is a str (an inline leaf of a known kind, and a block
\* of another kind), and a block with no content at all.
LeafBlocks ==
    { [e |-> "img", id |-> M2, c |-> [str |-> Caption]],
      [e |-> "par", c |-> [str |-> Caption]],
      [e |-> "hr"] }

Par(items) == [e |-> "par", c |-> [list |-> items]]

Weight(block) ==
    IF "c" \in DOMAIN block /\ "list" \in DOMAIN block.c THEN 1 + Len(block.c.list) ELSE 1

BlocksUpTo(w) ==
    IF w < 1 THEN {}
    ELSE LeafBlocks \cup {Par(items) : items \in UNION {[1..n -> Items] : n \in 0..(w - 1)}}

RECURSIVE DocumentsUpTo(_)
DocumentsUpTo(w) ==
    {<<>>} \cup UNION {{<<b>> \o d : d \in DocumentsUpTo(w - Weight(b))} : b \in BlocksUpTo(w)}

Documents == DocumentsUpTo(MaxNodes)

(***************************************************************************)
(* edit: the pattern of line 11, str.format, and what the model draws for   *)
(* the arguments of edit and the answers of the platform.                  *)
(***************************************************************************)

Alnum ==
    { "a", "b", "c", "d", "e", "f", "g", "h", "i", "j", "k", "l", "m",
      "n", "o", "p", "q", "r", "s", "t", "u", "v", "w", "x", "y", "z",
      "A", "B", "C", "D", "E", "F", "G", "H", "I", "J", "K", "L", "M",
      "N", "O", "P", "Q", "R", "S", "T", "U", "V", "W", "X", "Y", "Z",
      "0", "1", "2", "3", "4", "5", "6", "7", "8", "9" }

\* Whether INLINE_MEDIA_PATTERN matches body from position p:
\*   \n\n !? (\[.*?])? \(? ( https://((preview|i)\.redd\.it|reddit.com/link).*?
\*                         | (?!https)[a-zA-Z0-9]+( ".*?")? ) \)?
\* Everything after the first character class can match the empty string, and
\* "." matches any character but a newline.
PatternMatchesAt(body, p) ==
    LET n == Len(body)
        afterBang == {p + 2} \cup (IF StartsAt(body, p + 2, <<"!">>) THEN {p + 3} ELSE {})
        afterBracket(q) ==
            {q} \cup {r + 1 : r \in {r \in (q + 1)..n :
                                        /\ StartsAt(body, q, <<"[">>)
                                        /\ body[r] = "]"
                                        /\ \A m \in (q + 1)..(r - 1) : body[m] # "\n"}}
        afterParen(q) == {q} \cup (IF StartsAt(body, q, <<"(">>) THEN {q + 1} ELSE {})
        host(h) ==
            \/ StartsAt(body, h, <<"p", "r", "e", "v", "i", "e", "w">> \o
                                 <<".", "r", "e", "d", "d", ".", "i", "t">>)
            \/ StartsAt(body, h, <<"i", ".", "r", "e", "d", "d", ".", "i", "t">>)
            \/ /\ StartsAt(body, h, <<"r", "e", "d", "d", "i", "t">>)
               /\ h + 6 <= n
               /\ body[h + 6] # "\n"
               /\ StartsAt(body, h + 7, <<"c", "o", "m", "/", "l", "i", "n", "k">>)
        url(k) == StartsAt(body, k, HTTPS) /\ host(k + Len(HTTPS))
        word(k) ==
            /\ ~StartsAt(body, k, <<"h", "t", "t", "p", "s">>)
            /\ k <= n
            /\ body[k] \in Alnum
    IN  /\ StartsAt(body, p, <<"\n", "\n">>)
        /\ \E q1 \in afterBang : \E q2 \in afterBracket(q1) : \E q3 \in afterParen(q2) :
               url(q3) \/ word(q3)

\* Line 112: INLINE_MEDIA_PATTERN.search(body) is not None
PatternSearch(body) == \E p \in 1..Len(body) : PatternMatchesAt(body, p)

\* Line 115: body.format(**kwargs), for a body whose replacement fields are
\* plain names.  "{{" and "}}" are literal braces; a field with no closing brace,
\* a "{" inside a field name or a lone "}" raises ValueError, an empty field name
\* IndexError (there are no positional arguments), a name that is no key of
\* kwargs KeyError.
RECURSIVE Format(_, _)
Format(s, kwargs) ==
    LET braces == {k \in 1..Len(s) : s[k] \in {"{", "}"}}
    IN  IF braces = {} THEN [status |-> "ok", text |-> s]
        ELSE LET k == CHOOSE b \in braces : \A c \in braces : b <= c
                 literal == SubSeq(s, 1, k - 1)
                 tail == SubSeq(s, k, Len(s))
                 close == Find(tail, <<"}">>)
                 name == SubSeq(tail, 2, close - 1)
                 fail(e) == [status |-> e, text |-> <<>>]
                 cons(text, r) == IF r.status = "ok"
                                  THEN [status |-> "ok", text |-> literal \o text \o r.text]
                                  ELSE r
             IN  IF StartsAt(tail, 1, <<"{", "{">>)
                 THEN cons(<<"{">>, Format(SubSeq(tail, 3, Len(tail)), kwargs))
                 ELSE IF StartsAt(tail, 1, <<"}", "}">>)
                 THEN cons(<<"}">>, Format(SubSeq(tail, 3, Len(tail)), kwargs))
                 ELSE IF tail[1] = "}" THEN fail("ValueError")
                 ELSE IF close = 0 THEN fail("ValueError")
                 ELSE IF close = 2 THEN fail("IndexError")
                 ELSE IF "{" \in Range(name) THEN fail("ValueError")
                 ELSE IF name \notin DOMAIN kwargs THEN fail("KeyError")
                 ELSE cons(kwargs[name], Format(SubSeq(tail, close + 1, Len(tail)), kwargs))

\* Line 114: the truth value of inline_media (None and an empty dict are false).
Truthy(inline_media) == inline_media # <<>>

\* Line 124 without its test: the reconciler runs in every rich-text edit.
AfterConvertAlways(preserve) == "reconcile"

\* Line 124: the reconciler runs only when the caller asked for it.
AfterConvert(preserve) == IF preserve THEN "reconcile" ELSE "serialize"

\* Line 125 with the exception of the reconciler swallowed.
AfterReconcileSwallowed(status) == "serialize"

\* Line 125: an exception of the reconciler is not caught by edit.
AfterReconcile(status) == IF status = "ok" THEN "serialize" ELSE "raised"

\* Line 126: dumps(richtext_json), the JSON text of the document.
Dumps(document) == [json |-> document]

\* Lines 141 and 143: self.__dict__.update(...): the attributes of the answer
\* replace those of self; none is removed.
UpdateDict(attrs, updated) ==
    [k \in DOMAIN attrs \cup DOMAIN updated |->
        IF k \in DOMAIN updated THEN updated[k] ELSE attrs[k]]

\* The number of entries of the inline_media argument.
MaxInlineMedia == 1
\* The number of blocks and items of a document the converter answers with.
MaxConvertedNodes == 2

P == <<"p">>
Q == <<"q">>
Placeholders == {P, Q}

\* inline_media as the sequence of its keys, in insertion order; <<>> stands
\* for None and for an empty dict.
InlineMedias ==
    {m \in UNION {[1..n -> Placeholders] : n \in 0..MaxInlineMedia} :
        \A a, b \in DOMAIN m : a # b => m[a] # m[b]}

\* What an uploaded inline media formats as: \n\n![img](m2)
UploadedTexts == {<<"\n", "\n", "!", "[", "i", "m", "g", "]", "(">> \o M2 \o <<")">>}

Bodies ==
    { <<"h", "i">>,
      <<"\n", "\n", "h", "i">>,
      <<"\n", "\n", "!", "[", "g", "]", "(">> \o HTTPS \o ReddIt \o M1 \o <<")">>,
      <<"\n", "\n">> \o ExternalUrl,
      <<"{", "p", "}">>,
      <<"h", "i", "{", "q", "}">> }

ConvertedDocuments == DocumentsUpTo(MaxConvertedNodes)

\* The attributes an answer of the edit endpoint may carry.
Responses == {NoAttributes, [media_metadata |-> [id \in {M1} |-> [e |-> "Image"]]]}

(***************************************************************************)
(* State.                                                                  *)
(***************************************************************************)
VARIABLES
    self,                   \* the attributes of the edited object that the code reads
    body,                   \* edit's body
    preserve_inline_media,  \* edit's preserve_inline_media
    inline_media,           \* edit's inline_media
    uploaded,               \* the keyword arguments built for body.format so far
    is_richtext_json,
    data,                   \* the request data
    richtext_json,          \* richtext_json["document"]
    original,               \* the document as the reconciler received it
    outcome,                \* how the reconciler ended: status, block, item
    exc,                    \* the exception that left edit, "none" if none
    pc,                     \* the position in edit
    trace                   \* the calls made so far, in order

vars == <<self, body, preserve_inline_media, inline_media, uploaded, is_richtext_json,
          data, richtext_json, original, outcome, exc, pc, trace>>

NotRun == [status |-> "none", block |-> 0, item |-> 0]
NoKwargs == [k \in {} |-> k]

\* Lines 107-110.
InitialData == [thing_id |-> "fullname", validate_on_submit |-> FALSE]

\* Lines 107-114: the request data, the search for inline media in the body.
Begin ==
    /\ pc = "begin"
    /\ data' = InitialData
    /\ is_richtext_json' = PatternSearch(body)
    /\ pc' = IF Truthy(inline_media) THEN "upload"
             ELSE IF PatternSearch(body) THEN "convert" ELSE "text"
    /\ UNCHANGED <<self, body, preserve_inline_media, inline_media, uploaded,
                   richtext_json, original, outcome, exc, trace>>

\* Lines 116-119: one entry of the dict comprehension, an upload.
Upload ==
    /\ pc = "upload"
    /\ Len(trace) < Len(inline_media)
    /\ \E text \in UploadedTexts :
        uploaded' = [k \in DOMAIN uploaded \cup {inline_media[Len(trace) + 1]} |->
                        IF k = inline_media[Len(trace) + 1] THEN text ELSE uploaded[k]]
    /\ trace' = Append(trace, "upload")
    /\ pc' = IF Len(trace) + 1 = Len(inline_media) THEN "format" ELSE "upload"
    /\ UNCHANGED <<self, body, preserve_inline_media, inline_media, is_richtext_json,
                   data, richtext_json, original, outcome, exc>>

\* Lines 115-121: body = body.format(**{...}); is_richtext_json = True
FormatBody ==
    /\ pc = "format"
    /\ LET r == Format(body, uploaded)
       IN  IF r.status = "ok"
           THEN /\ body' = r.text
                /\ is_richtext_json' = TRUE
                /\ pc' = "convert"
                /\ trace' = Append(trace, "format")
                /\ exc' = exc
           ELSE /\ exc' = r.status
                /\ pc' = "raised"
                /\ UNCHANGED <<body, is_richtext_json, trace>>
    /\ UNCHANGED <<self, preserve_inline_media, inline_media, uploaded, data,
                   richtext_json, original, outcome>>

\* Lines 122-124: richtext_json = self.subreddit._convert_to_fancypants(body)
Convert ==
    /\ pc = "convert"
    /\ \E document \in ConvertedDocuments :
        /\ richtext_json' = document
        /\ original' = document
    /\ trace' = Append(trace, "convert")
    /\ pc' = AfterConvert(preserve_inline_media)
    /\ UNCHANGED <<self, body, preserve_inline_media, inline_media, uploaded,
                   is_richtext_json, data, outcome, exc>>

\* Line 125: self._replace_richtext_links(richtext_json)
Reconcile ==
    /\ pc = "reconcile"
    /\ \E r \in ReplaceRichtextLinks(self, richtext_json) :
        /\ richtext_json' = r.document
        /\ outcome' = [status |-> r.status, block |-> r.block, item |-> r.item]
        /\ exc' = IF r.status = "ok" THEN exc ELSE r.status
        /\ pc' = AfterReconcile(r.status)
    /\ trace' = Append(trace, "reconcile")
    /\ UNCHANGED <<self, body, preserve_inline_media, inline_media, uploaded,
                   is_richtext_json, data, original>>

\* Line 126: data["richtext_json"] = dumps(richtext_json)
Serialize ==
    /\ pc = "serialize"
    /\ data' = [thing_id |-> data.thing_id, validate_on_submit |-> data.validate_on_submit,
                richtext_json |-> Dumps(richtext_json)]
    /\ pc' = "post"
    /\ UNCHANGED <<self, body, preserve_inline_media, inline_media, uploaded,
                   is_richtext_json, richtext_json, original, outcome, exc, trace>>

\* Line 128: data["text"] = body
SetText ==
    /\ pc = "text"
    /\ data' = [thing_id |-> data.thing_id, validate_on_submit |-> data.validate_on_submit,
                text |-> body]
    /\ pc' = "post"
    /\ UNCHANGED <<self, body, preserve_inline_media, inline_media, uploaded,
                   is_richtext_json, richtext_json, original, outcome, exc, trace>>

\* Line 129: updated = self._reddit.post(API_PATH["edit"], data=data)
Post ==
    /\ pc = "post"
    /\ trace' = Append(trace, "post")
    /\ pc' = "update"
    /\ UNCHANGED <<self, body, preserve_inline_media, inline_media, uploaded,
                   is_richtext_json, data, richtext_json, original, outcome, exc>>

\* Lines 130-144: the attributes of the answer are copied onto self.
Update ==
    /\ pc = "update"
    /\ \E updated \in Responses : self' = UpdateDict(self, updated)
    /\ pc' = "done"
    /\ UNCHANGED <<body, preserve_inline_media, inline_media, uploaded, is_richtext_json,
                   data, richtext_json, original, outcome, exc, trace>>

\* The reconciler called on a document of an object.
Init ==
    /\ self \in Selfs
    /\ body = <<>>
    /\ preserve_inline_media = TRUE
    /\ inline_media = <<>>
    /\ uploaded = NoKwargs
    /\ is_richtext_json = TRUE
    /\ data = InitialData
    /\ richtext_json \in Documents
    /\ original = richtext_json
    /\ outcome = NotRun
    /\ exc = "none"
    /\ pc = "reconcile"
    /\ trace = <<>>

Next == Reconcile

Spec == Init /\ [][Next]_vars

\* edit called with a body, preserve_inline_media and inline_media.
InitEdit ==
    /\ self \in Selfs
    /\ body \in Bodies
    /\ preserve_inline_media \in BOOLEAN
    /\ inline_media \in InlineMedias
    /\ uploaded = NoKwargs
    /\ is_richtext_json = FALSE
    /\ data = NoKwargs
    /\ richtext_json = <<>>
    /\ original = <<>>
    /\ outcome = NotRun
    /\ exc = "none"
    /\ pc = "begin"
    /\ trace = <<>>

NextEdit ==
    \/ Begin
    \/ Upload
    \/ FormatBody
    \/ Convert
    \/ Reconcile
    \/ Serialize
    \/ SetText
    \/ Post
    \/ Update

SpecEdit == InitEdit /\ [][NextEdit]_vars

(***************************************************************************)
(* Vocabulary of the properties.  It is written from the statements, not   *)
(* from the operators above: the canonical kinds are spelled out, and a    *)
(* token of a URL is found by position instead of by splitting.            *)
(***************************************************************************)

\* The reconciler has been called and has ended.
Called == outcome.status # "none"

\* The keys of the media map; none when the object has no media map.
Keys == IF "media_metadata" \in DOMAIN self THEN DOMAIN self.media_metadata ELSE {}

CanonicalKind(kind) ==
    CASE kind = "Image" -> "img"
      [] kind = "RedditVideo" -> "video"
      [] kind = "AnimatedImage" -> "gif"
      [] OTHER -> "unknown"

KindsKnown == \A id \in Keys : self.media_metadata[id].e \in {"Image", "RedditVideo", "AnimatedImage"}

\* The inline items of a block; none for a block whose content is no sequence.
ItemsOf(block) ==
    IF "c" \in DOMAIN block /\ "list" \in DOMAIN block.c THEN block.c.list ELSE <<>>

LinksOf(block) == {j \in DOMAIN ItemsOf(block) : ItemsOf(block)[j].e = "link"}

IsLeaf(block) == "c" \in DOMAIN block /\ "str" \in DOMAIN block.c

\* A block the data model allows: a sequence of items, or a literal string
\* on a gif, img or video block.
WellFormedBlock(block) ==
    /\ "c" \in DOMAIN block
    /\ "str" \in DOMAIN block.c => block.e \in {"gif", "img", "video"}

\* The URL without its scheme and without its query string.
Bare(u) ==
    LET k == Find(u, <<":", "/", "/">>)
        rest == IF k = 0 THEN u ELSE SubSeq(u, k + 3, Len(u))
        q == Find(rest, <<"?">>)
    IN  IF q = 0 THEN rest ELSE SubSeq(rest, 1, q - 1)

\* id is one of the pieces of the bare URL between '.' and '/'.
IsToken(id, u) ==
    LET s == Bare(u)
    IN  /\ \A k \in DOMAIN id : id[k] \notin {".", "/"}
        /\ \E a \in 1..(Len(s) + 1) :
            /\ a + Len(id) - 1 <= Len(s)
            /\ SubSeq(s, a, a + Len(id) - 1) = id
            /\ a = 1 \/ s[a - 1] \in {".", "/"}
            /\ a + Len(id) > Len(s) \/ s[a + Len(id)] \in {".", "/"}

Matches(item) == \E id \in Keys : IsToken(id, item.u)

\* The traversal of the blocks began: the object has a media map and all its
\* kinds are known.
Traversed == Called /\ "media_metadata" \in DOMAIN self /\ outcome.status # "KeyError"

\* The traversal reached block i, and went past it.
Reached(i) == Traversed /\ (outcome.status = "ok" \/ outcome.block >= i)
Passed(i) == Traversed /\ (outcome.status = "ok" \/ outcome.block > i)

\* How many items of block i the traversal handled without raising.
Processed(i) ==
    IF Passed(i) THEN Len(ItemsOf(original[i]))
    ELSE IF Traversed /\ outcome.block = i /\ outcome.item > 0 THEN outcome.item - 1
    ELSE 0

\* The links of block i that were handled and that match a media identifier.
MatchingProcessed(i) ==
    {j \in LinksOf(original[i]) : j <= Processed(i) /\ Matches(ItemsOf(original[i])[j])}

Replaced(i) == richtext_json[i] # original[i]

\* The element the statements ask for, for a link and the identifier matched.
ExpectedElement(id, link) ==
    IF link.t = link.u
    THEN [e |-> CanonicalKind(self.media_metadata[id].e), id |-> id]
    ELSE [e |-> CanonicalKind(self.media_metadata[id].e), id |-> id, c |-> [str |-> link.t]]

(***************************************************************************)
(* Properties of _replace_richtext_links, under Spec.                      *)
(***************************************************************************)

\* C1: once the traversal is past a block whose only item is a link with URL
\* https://i.redd.it/{id}?amp=1 and display text equal to the URL, for a key id
\* of the media map, the block at that index is exactly
\* {e: canonical kind of id's descriptor, id: id}, with no caption field.
C1_SyntheticLinkReplaced ==
    \A i \in DOMAIN original : \A id \in Keys :
        (Passed(i) /\ ItemsOf(original[i]) = <<Link(MediaUrl(id), MediaUrl(id))>>)
            => /\ richtext_json[i] = [e |-> CanonicalKind(self.media_metadata[id].e), id |-> id]
               /\ "c" \notin DOMAIN richtext_json[i]

C1_Witness ==
    /\ outcome.status = "ok"
    /\ \E i \in DOMAIN original :
        /\ ItemsOf(original[i]) = <<Link(MediaUrl(M1), MediaUrl(M1))>>
        /\ M1 \in Keys
        /\ self.media_metadata[M1].e = "RedditVideo"
        /\ richtext_json[i] = [e |-> "video", id |-> M1]

\* C2 (as stated, for documents the data model allows): with the media map
\* absent or empty the call returns normally and leaves the document as it was.
C2_AbsentOrEmptyIsNoOp ==
    (/\ Called
     /\ Keys = {}
     /\ \A i \in DOMAIN original : WellFormedBlock(original[i]))
        => outcome.status = "ok" /\ richtext_json = original

\* C4 (as stated, for a media map of known kinds and literal-string blocks of
\* kind gif, img or video): on a document without link items the call returns
\* normally and changes no block.
C4_NoLinksIsNoOp ==
    (/\ Called
     /\ KindsKnown
     /\ \A i \in DOMAIN original :
            /\ LinksOf(original[i]) = {}
            /\ IsLeaf(original[i]) => original[i].e \in {"gif", "img", "video"})
        => outcome.status = "ok" /\ richtext_json = original

\* C5 (as stated, for a block none of whose links matches): a link whose URL
\* has no token that is a key of the media map leaves its block unchanged, and
\* the call does not fail at that link.
C5_NoMatchIsNotAnError ==
    Called =>
        \A i \in DOMAIN original :
            (LinksOf(original[i]) # {}
             /\ \A j \in LinksOf(original[i]) : ~Matches(ItemsOf(original[i])[j]))
                => /\ richtext_json[i] = original[i]
                   /\ outcome.block # i

\* C6: a replaced block comes from the last matching link handled in the
\* original block; it has a caption field exactly when that link's display
\* text differs from its URL, and the caption is the display text.
C6_CaptionIffTextDiffers ==
    \A i \in DOMAIN original :
        Replaced(i) =>
            /\ MatchingProcessed(i) # {}
            /\ LET last == CHOOSE j \in MatchingProcessed(i) :
                               \A k \in MatchingProcessed(i) : k <= j
                   link == ItemsOf(original[i])[last]
               IN  /\ "c" \in DOMAIN richtext_json[i] <=> link.t # link.u
                   /\ "c" \in DOMAIN richtext_json[i] => richtext_json[i].c = [str |-> link.t]

C6_Witness ==
    /\ outcome.status = "ok"
    /\ \E i, k \in DOMAIN original :
        /\ Replaced(i) /\ "c" \in DOMAIN richtext_json[i]
        /\ richtext_json[i].c = [str |-> Caption]
        /\ Replaced(k) /\ "c" \notin DOMAIN richtext_json[k]

\* C7: a replaced block has an id that is a key of the media map and a token of
\* the URL of a link of the original block at that index, and its kind is the
\* canonical kind of that identifier's descriptor.
C7_IdIsTokenOfUrl ==
    \A i \in DOMAIN original :
        Replaced(i) =>
            /\ "id" \in DOMAIN richtext_json[i]
            /\ richtext_json[i].id \in Keys
            /\ \E j \in LinksOf(original[i]) :
                   IsToken(richtext_json[i].id, ItemsOf(original[i])[j].u)
            /\ richtext_json[i].e = CanonicalKind(self.media_metadata[richtext_json[i].id].e)

C7_Witness ==
    \E i \in DOMAIN original :
        /\ Replaced(i)
        /\ richtext_json[i].id = M2
        /\ \E j \in LinksOf(original[i]) :
            /\ IsToken(M1, ItemsOf(original[i])[j].u)
            /\ IsToken(M2, ItemsOf(original[i])[j].u)
        /\ M1 \in Keys

\* C8: the document keeps its length, and every index holds the original
\* block or the element made for a matching link of the original block at
\* that index.
C8_InPlaceByIndex ==
    /\ Len(richtext_json) = Len(original)
    /\ \A i \in DOMAIN original :
        \/ richtext_json[i] = original[i]
        \/ \E j \in LinksOf(original[i]) : \E id \in Keys :
            /\ IsToken(id, ItemsOf(original[i])[j].u)
            /\ richtext_json[i] = ExpectedElement(id, ItemsOf(original[i])[j])

C8_Witness ==
    /\ Called
    /\ Len(original) = 2
    /\ ~Replaced(1)
    /\ Replaced(2)

\* C10: a block whose content is a literal string is never changed; if its
\* kind is gif, img or video the call does not fail at it, and if its kind is
\* anything else the traversal that reaches it ends there with the assertion
\* error, which leaves the reconciler.
C10_LeafSkippedOrFatal ==
    \A i \in DOMAIN original :
        IsLeaf(original[i]) =>
            /\ richtext_json[i] = original[i]
            /\ original[i].e \in {"gif", "img", "video"} => outcome.block # i
            /\ (original[i].e \notin {"gif", "img", "video"} /\ Reached(i))
                => /\ outcome = [status |-> "AssertionError", block |-> i, item |-> 0]
                   /\ exc = "AssertionError"
                   /\ pc = "raised"

C10_Witness ==
    /\ Len(original) = 2
    /\ IsLeaf(original[1]) /\ original[1].e = "img"
    /\ IsLeaf(original[2]) /\ original[2].e = "par"
    /\ outcome = [status |-> "AssertionError", block |-> 2, item |-> 0]
    /\ pc = "raised"

(***************************************************************************)
(* Properties of edit, under SpecEdit.                                     *)
(***************************************************************************)

Made(call) == \E k \in DOMAIN trace : trace[k] = call

\* The reconciler ran in this edit, on the media map self still has.
ReconcilerRan == Made("reconcile") /\ pc # "done"

\* C3 (as stated): with a descriptor of unknown kind, an edit that reaches the
\* reconciler fails before any network call: no upload, no conversion call and
\* no edit-submission call is made.
C3_AbortsBeforeAnyNetworkCall ==
    (ReconcilerRan /\ ~KindsKnown)
        => /\ pc = "raised"
           /\ exc = "KeyError"
           /\ ~Made("upload") /\ ~Made("convert") /\ ~Made("post")

\* C3 (amended): with a descriptor of unknown kind, an edit that reaches the
\* reconciler fails with the KeyError, which leaves edit, and no
\* edit-submission call is made; the conversion call, and every upload, were
\* made before the reconciler ran.
C3_AbortsBeforeSubmission ==
    (ReconcilerRan /\ ~KindsKnown)
        => /\ pc = "raised"
           /\ exc = "KeyError"
           /\ outcome.status = "KeyError"
           /\ ~Made("post")
           /\ Made("convert")
           /\ Truthy(inline_media) => Made("upload")
           /\ richtext_json = original

C3_Witness ==
    /\ ~KindsKnown
    /\ pc = "raised"
    /\ exc = "KeyError"
    /\ trace = <<"upload", "format", "convert", "reconcile">>

\* C9: the reconciler runs only when preserve_inline_media is true, after the
\* conversion call and, when inline media were passed, after their uploads and
\* the substitution of the placeholders, and before the edit-submission call;
\* when the reconciler fails, no edit-submission call is made.
C9_ReconcilerPlace ==
    \A k \in DOMAIN trace :
        trace[k] = "reconcile" =>
            /\ preserve_inline_media
            /\ \E c \in 1..(k - 1) : trace[c] = "convert"
            /\ Truthy(inline_media) =>
                \E f \in 1..(k - 1) :
                    /\ trace[f] = "format"
                    /\ \A u \in DOMAIN trace : trace[u] = "upload" => u < f
            /\ \A p \in DOMAIN trace : trace[p] = "post" => p > k
            /\ outcome.status # "ok" => (~Made("post") /\ pc = "raised")

C9_Witness ==
    /\ preserve_inline_media
    /\ trace = <<"upload", "format", "convert", "reconcile", "post">>
    /\ \E i \in DOMAIN original : Replaced(i)

====
